---- MODULE Spec2Model ----
(***************************************************************************)
(* Coloring-page converter: the generation service wrapper                 *)
(* (generateColoringPage) and the React component that drives it (App).    *)
(*                                                                         *)
(* A JavaScript string is a sequence of tokens (each token a run of        *)
(* characters); concatenation is \o, the empty string is <<>>.             *)
(* null / undefined is the reserved one-token string Null.                 *)
(***************************************************************************)
EXTENDS Integers, Sequences, FiniteSets, TLC

VARIABLES
    \* ---- one invocation of generateColoringPage ----
    args,           \* its four parameters
    pc,             \* "start" | "await" | "done"
    requests,       \* the requests sent to ai.models.generateContent, in order
    settled,        \* how the awaited service call ended
    outcomes,       \* what the invocation returned or threw, in order
    \* ---- the App component ----
    mounted,        \* the component has run its mount effects
    uploadedFile, generatedImage, isLoading, error, lineThickness, imageQuality,
    localStorage,   \* the two keys the component owns
    readers,        \* FileReaders whose onloadend/onerror has not fired yet
    pending         \* generateColoringPage calls the component is awaiting

svcVars == <<args, pc, requests, settled, outcomes>>
uiVars  == <<mounted, uploadedFile, generatedImage, isLoading, error,
             lineThickness, imageQuality, localStorage, readers, pending>>
vars    == <<svcVars, uiVars>>

\* ------------------------------------------------------------------ bounds
MaxParts   == 2      \* content parts in a candidate
MaxReaders == 2      \* file reads in flight at once
MaxPending == 2      \* cap on awaited calls (the code itself keeps it at 1)

\* ------------------------------------------------------------- JS values
Null == <<"<null>">>
Truthy(s) == s # Null /\ s # <<>>

IsWhitespace(tok) == tok = " "

RECURSIVE TrimStart(_)
TrimStart(s) ==
    IF s # <<>> /\ IsWhitespace(Head(s)) THEN TrimStart(Tail(s)) ELSE s

RECURSIVE TrimEnd(_)
TrimEnd(s) ==
    IF s # <<>> /\ IsWhitespace(s[Len(s)])
    THEN TrimEnd(SubSeq(s, 1, Len(s) - 1)) ELSE s

\* String.prototype.trim
Trim(s) == TrimEnd(TrimStart(s))

\* String.prototype.includes
Contains(s, p) ==
    \E i \in 0..(Len(s) - Len(p)) : SubSeq(s, i + 1, i + Len(p)) = p

StartsWith(s, p) == Len(s) >= Len(p) /\ SubSeq(s, 1, Len(p)) = p

\* ---------------------------------------------------------------- enums
LineThicknesses == {"thin", "medium", "bold"}
ImageQualities  == {"low", "medium", "high"}

\* ------------------------------------------- generateColoringPage: prompt
thicknessDescriptionBroken(t) ==
    CASE t = "thin"   -> <<"thin", "and", "delicate", "outlines">>
      [] t = "medium" -> <<"extra", "bold", "and", "thick", "outlines">>
      [] t = "bold"   -> <<"extra", "bold", "and", "thick", "outlines">>

thicknessDescription(t) ==
    CASE t = "thin"   -> <<"thin", "and", "delicate", "outlines">>
      [] t = "medium" -> <<"bold", "outlines">>
      [] t = "bold"   -> <<"extra", "bold", "and", "thick", "outlines">>

qualityDescription(q) ==
    CASE q = "low"    -> <<"with", "simple", "details,", "suitable", "for",
                           "young", "children">>
      [] q = "medium" -> <<"with", "a", "moderate", "amount", "of", "detail">>
      [] q = "high"   -> <<"with", "intricate", "and", "fine", "details,",
                           "suitable", "for", "adults">>

prompt(t, q) ==
    <<"Transform", "this", "image", "into", "a", "black", "and", "white",
      "coloring", "book", "page.", "\n",
      "The", "output", "should", "have", "clean,", "simple,", "and">>
    \o thicknessDescription(t) \o
    <<".", "\n", "It", "should", "be">>
    \o qualityDescription(q) \o
    <<".", "\n", "Remove", "all", "shading,", "gradients,", "and", "colors.",
      "\n", "Focus", "on", "creating", "clear,", "distinct", "lines",
      "suitable", "for", "coloring.", "\n",
      "The", "final", "image", "should", "be", "purely", "line", "art.">>

\* the argument of ai.models.generateContent
Request(a) ==
    [model              |-> "gemini-2.5-flash-image-preview",
     data               |-> a.base64Data,
     mimeType           |-> a.mimeType,
     text               |-> prompt(a.lineThickness, a.imageQuality),
     responseModalities |-> <<"IMAGE", "TEXT">>]

\* ------------------------------------- what the generation service can do
FinishReasons == {"STOP", "SAFETY", "RECITATION", "undefined"}

Base64s   == {<<>>, <<"QQ==">>, <<"Qg==">>}
MimeTypes == {<<"image/", "png">>, <<"image/", "jpeg">>}

\* image payloads the service may produce from the image b it was sent
ServiceImages(b) ==
    {<<"lineart1(">> \o b \o <<")">>, <<"lineart2(">> \o b \o <<")">>}

\* a content part: inlineData is Null (absent) or the payload of the blob
Parts(b) == [inlineData : {Null, <<>>} \cup ServiceImages(b)]

SeqsUpTo(S, n) == UNION {[1..k -> S] : k \in 0..n}

\* response.text as the SDK exposes it
Texts == {Null, <<" ">>, <<"Sorry,", " ", "no.">>, <<" ", "Sorry", " ">>}

\* candidates?.[0]: its content parts (<<>> when anything on the path is
\* missing), its finishReason, and the response's text
Responses(b) ==
    [parts : SeqsUpTo(Parts(b), MaxParts), finishReason : FinishReasons,
     text : Texts]

NoResponse == [parts |-> <<>>, finishReason |-> "undefined", text |-> Null]

\* values the awaited call can reject with: Error objects and anything else
Errors ==
    {[isError |-> TRUE,  message |-> <<"fetch", " ", "failed">>],
     [isError |-> TRUE,  message |-> <<"429", " ", "quota">>],
     [isError |-> FALSE, message |-> Null]}

NoError == [isError |-> FALSE, message |-> Null]

\* --------------------------------- generateColoringPage: the error texts
SafetyBlockedMessage ==
    <<"Image generation was blocked due to safety or policy reasons.">>
TextOnlyMessage(t) ==
    <<"The model returned a text response instead of an image: \"">>
    \o t \o <<"\"">>
NoImageMessage ==
    <<"Failed to generate an image. The model did not return image data.">>
ApiErrorPrefix == <<"An API error occurred: ">>
UnknownErrorMessage ==
    <<"An unknown error occurred while communicating with the API.">>

\* ------------------------------- generateColoringPage: after the await
RECURSIVE findLastImagePart(_)
findLastImagePart(parts) ==
    IF parts = <<>> THEN 0
    ELSE IF parts[Len(parts)].inlineData # Null THEN Len(parts)
    ELSE findLastImagePart(SubSeq(parts, 1, Len(parts) - 1))

\* parts?.find(part => part.inlineData): index of the first part that has
\* an inlineData object, 0 for undefined
findImagePart(parts) ==
    IF \E i \in 1..Len(parts) : parts[i].inlineData # Null
    THEN CHOOSE i \in 1..Len(parts) :
            /\ parts[i].inlineData # Null
            /\ \A j \in 1..(i - 1) : parts[j].inlineData = Null
    ELSE 0

\* the try block once the response is in: a returned value or a thrown Error
TryBody(response) ==
    LET i == findImagePart(response.parts)
        textResponse == IF response.text = Null THEN Null
                        ELSE Trim(response.text)
    IN  IF i # 0
        THEN [threw |-> FALSE, value |-> response.parts[i].inlineData,
              error |-> NoError]
        ELSE IF response.finishReason \in {"SAFETY", "RECITATION"}
        THEN [threw |-> TRUE, value |-> Null,
              error |-> [isError |-> TRUE, message |-> SafetyBlockedMessage]]
        ELSE IF Truthy(textResponse)
        THEN [threw |-> TRUE, value |-> Null,
              error |-> [isError |-> TRUE,
                         message |-> TextOnlyMessage(textResponse)]]
        ELSE [threw |-> TRUE, value |-> Null,
              error |-> [isError |-> TRUE, message |-> NoImageMessage]]

CatchBlockRethrow(e) == e

\* the catch block: the Error it throws for a caught value e
CatchBlock(e) ==
    IF e.isError
    THEN [isError |-> TRUE, message |-> ApiErrorPrefix \o e.message]
    ELSE [isError |-> TRUE, message |-> UnknownErrorMessage]

\* how the awaited call ended
Resolved(response) == [rejected |-> FALSE, response |-> response,
                       error |-> NoError]
Rejected(e) == [rejected |-> TRUE, response |-> NoResponse, error |-> e]
NotSettled == [rejected |-> FALSE, response |-> NoResponse, error |-> NoError]

\* what the promise returned by generateColoringPage settles with
Outcome(s) ==
    LET r == IF s.rejected
             THEN [threw |-> TRUE, value |-> Null, error |-> s.error]
             ELSE TryBody(s.response)
    IN  IF r.threw
        THEN [ok |-> FALSE, value |-> Null,
              message |-> CatchBlock(r.error).message]
        ELSE [ok |-> TRUE, value |-> r.value, message |-> Null]

\* ------------------------------------------------- App: state and storage
\* uploadedFile === null
NullFile == [base64 |-> Null, mimeType |-> Null, previewUrl |-> Null]
\* localStorage.getItem(UPLOADED_FILE_KEY) === null
NullStored == [base64 |-> Null, mimeType |-> Null]

\* ------------------------------ generateColoringPage as a state machine
ArgSets ==
    [base64Data : Base64s, mimeType : MimeTypes,
     lineThickness : LineThicknesses, imageQuality : ImageQualities]

\* the state at the call of generateColoringPage; the App component is not
\* stepped in this specification and stays as constructed
InitService ==
    /\ args \in ArgSets
    /\ pc = "start"
    /\ requests = <<>>
    /\ settled = NotSettled
    /\ outcomes = <<>>
    /\ mounted = FALSE
    /\ uploadedFile = NullFile
    /\ generatedImage = Null
    /\ isLoading = FALSE
    /\ error = Null
    /\ lineThickness = "medium"
    /\ imageQuality = "medium"
    /\ localStorage = [file |-> NullStored, gen |-> Null]
    /\ readers = {}
    /\ pending = <<>>

\* lines 13-55: compose the prompt, send the one request, suspend
Invoke ==
    /\ pc = "start"
    /\ requests' = Append(requests, Request(args))
    /\ pc' = "await"
    /\ UNCHANGED <<args, settled, outcomes, uiVars>>

SettleRetry(s) ==
    /\ pc = "await"
    /\ settled' = s
    /\ IF ~Outcome(s).ok /\ Len(requests) < 2
       THEN /\ requests' = Append(requests, Request(args))
            /\ pc' = "await"
            /\ UNCHANGED outcomes
       ELSE /\ outcomes' = Append(outcomes, Outcome(s))
            /\ pc' = "done"
            /\ UNCHANGED requests
    /\ UNCHANGED <<args, uiVars>>

\* lines 57-80: the awaited call ends; the function returns or throws
Settle(s) ==
    /\ pc = "await"
    /\ settled' = s
    /\ outcomes' = Append(outcomes, Outcome(s))
    /\ pc' = "done"
    /\ UNCHANGED <<args, requests, uiVars>>

\* the awaited call is fulfilled with a response
ServiceResolves ==
    \E r \in Responses(args.base64Data) :
        /\ pc = "await"
        /\ Settle(Resolved(r))

\* the awaited call is rejected with a thrown value
ServiceRejects ==
    \E e \in Errors :
        /\ pc = "await"
        /\ Settle(Rejected(e))

SvcNext == Invoke \/ ServiceResolves \/ ServiceRejects

SpecService == InitService /\ [][SvcNext]_vars

\* ------------------------------------------------------ service claims
Done == pc = "done" /\ Len(outcomes) >= 1
Result == outcomes[Len(outcomes)]
HasImagePart(r) == \E i \in 1..Len(r.parts) : r.parts[i].inlineData # Null
FirstImageData(r) ==
    r.parts[CHOOSE i \in 1..Len(r.parts) :
              /\ r.parts[i].inlineData # Null
              /\ \A j \in 1..(i - 1) : r.parts[j].inlineData = Null].inlineData
NoImageResponse == Done /\ ~settled.rejected /\ ~HasImagePart(settled.response)
IsSafetyReason(r) == r.finishReason \in {"SAFETY", "RECITATION"}

\* C1: a response whose first candidate has a part with inline image data
\* makes the call succeed with the data of the first such part, unchanged,
\* whatever the finish reason and the text.
C1_FirstImageReturned ==
    (Done /\ ~settled.rejected /\ HasImagePart(settled.response))
        => /\ Result.ok
           /\ Result.value = FirstImageData(settled.response)

\* C1 witness: a blocked-looking response with text and two different
\* images has been answered.
C1_Witness ==
    /\ Done /\ ~settled.rejected
    /\ Len(settled.response.parts) = 2
    /\ settled.response.parts[1].inlineData # Null
    /\ settled.response.parts[2].inlineData # Null
    /\ settled.response.parts[1] # settled.response.parts[2]
    /\ settled.response.finishReason = "SAFETY"
    /\ Truthy(settled.response.text)
    /\ Result.ok

\* C2 (as claimed): no image part and finish reason SAFETY or RECITATION
\* gives the SafetyBlocked failure, which is not the ApiError failure.
C2_SafetyBlocked ==
    (NoImageResponse /\ IsSafetyReason(settled.response))
        => /\ ~Result.ok
           /\ Result.message = SafetyBlockedMessage
           /\ ~StartsWith(Result.message, ApiErrorPrefix)

\* C3 (as claimed): no image part, no safety reason, non-empty text gives
\* the TextOnlyResponse failure carrying the returned text.
C3_TextOnlyResponse ==
    (NoImageResponse /\ ~IsSafetyReason(settled.response)
       /\ Truthy(settled.response.text))
        => /\ ~Result.ok
           /\ \/ Result.message = TextOnlyMessage(settled.response.text)
              \/ Result.message = TextOnlyMessage(Trim(settled.response.text))

\* C4 (as claimed): no image part, no text, no safety reason gives the
\* NoImageReturned failure.
C4_NoImageReturned ==
    (NoImageResponse /\ ~IsSafetyReason(settled.response)
       /\ ~Truthy(settled.response.text))
        => /\ ~Result.ok
           /\ Result.message = NoImageMessage

\* C5: when the service call throws an Error with message m the call fails
\* with the ApiError message wrapping m: no success, and not m itself.
C5_ApiErrorWraps ==
    (Done /\ settled.rejected /\ settled.error.isError)
        => /\ ~Result.ok
           /\ Result.value = Null
           /\ Result.message = ApiErrorPrefix \o settled.error.message
           /\ Result.message # settled.error.message

C5_Witness ==
    /\ Done /\ settled.rejected /\ settled.error.isError
    /\ Result.message = ApiErrorPrefix \o <<"fetch", " ", "failed">>

\* C6: an invocation sends exactly one request and ends with exactly one
\* outcome; no request follows a failure.
C6_OneRequestOneOutcome ==
    /\ pc = "start" => (requests = <<>> /\ outcomes = <<>>)
    /\ pc = "await" => (Len(requests) = 1 /\ outcomes = <<>>)
    /\ pc = "done"  => (Len(requests) = 1 /\ Len(outcomes) = 1)
    /\ Len(requests) <= 1

C6_Witness == Done /\ ~Result.ok /\ Len(requests) = 1 /\ Len(outcomes) = 1

\* C8: the instruction text sent contains the phrase of the selected
\* thickness and of the selected detail level, no phrase of another
\* value, and is the same for every image and media type.
C8_PromptPhrases ==
    \A i \in 1..Len(requests) :
        /\ \A t \in LineThicknesses :
              Contains(requests[i].text, thicknessDescription(t))
                  <=> (t = args.lineThickness)
        /\ \A q \in ImageQualities :
              Contains(requests[i].text, qualityDescription(q))
                  <=> (q = args.imageQuality)
        /\ \A a \in ArgSets :
              (a.lineThickness = args.lineThickness
                 /\ a.imageQuality = args.imageQuality)
                  => Request(a).text = requests[i].text

C8_Witness ==
    /\ Len(requests) = 1
    /\ args.lineThickness = "medium" /\ args.imageQuality = "high"
    /\ Contains(requests[1].text, <<"and", "bold", "outlines", ".">>)

\* ------------------------------------------------------ App: the files
\* what the user can pick in the file dialog: a File's name, its type and
\* its content in base64 (Null: the read fails)
Files ==
    {[name |-> "a.png",  type |-> <<"image/", "png">>,  content |-> <<"QQ==">>],
     [name |-> "b.jpg",  type |-> <<"image/", "jpeg">>, content |-> <<"Qg==">>],
     [name |-> "e.png",  type |-> <<"image/", "png">>,  content |-> <<>>],
     [name |-> "n.txt",  type |-> <<"text/", "plain">>, content |-> <<"dA==">>],
     [name |-> "x.png",  type |-> <<"image/", "png">>,  content |-> Null]}

\* FileReader.readAsDataURL: reader.result
DataURL(file) == <<"data:">> \o file.type \o <<";base64", ",">> \o file.content

RECURSIVE UpToComma(_)
UpToComma(s) ==
    IF s = <<>> \/ Head(s) = "," THEN <<>>
    ELSE <<Head(s)>> \o UpToComma(Tail(s))

RECURSIVE AfterComma(_)
AfterComma(s) ==
    IF s = <<>> THEN Null
    ELSE IF Head(s) = "," THEN UpToComma(Tail(s))
    ELSE AfterComma(Tail(s))

\* base64String.split(',')[1] (undefined when there is no comma)
SplitComma1(s) == AfterComma(s)

InvalidFileMessage ==
    <<"Please upload a valid image file (PNG, JPG, etc.).">>
ReadFailedMessage  == <<"Failed to read the file.">>
UploadFirstMessage == <<"Please upload an image first.">>

\* ---------------------------------------------------- App: local storage
\* where localStorage.setItem throws (quota exceeded), if anywhere
SaveFailures == {"none", "file", "gen"}

\* the save effect (lines 56-77), run with the rendered state
SaveEffect(storage, file, gen, fail) ==
    LET fileThrows == file # NullFile /\ fail = "file"
        genThrows  == Truthy(gen) /\ fail = "gen"
        afterFile  == IF file # NullFile
                      THEN IF fileThrows THEN storage.file
                           ELSE [base64 |-> file.base64,
                                 mimeType |-> file.mimeType]
                      ELSE NullStored
        afterGen   == IF fileThrows THEN storage.gen
                      ELSE IF Truthy(gen)
                      THEN IF genThrows THEN storage.gen ELSE gen
                      ELSE Null
    IN  [file |-> afterFile, gen |-> afterGen]

\* the effect runs after a render in which one of its dependencies changed
\* (a new uploadedFile object counts as changed)
Saved(newFile, newGen, fileSet, fail) ==
    IF fileSet \/ newFile # uploadedFile \/ newGen # generatedImage
    THEN SaveEffect(localStorage, newFile, newGen, fail)
    ELSE localStorage

\* the load effect (lines 29-53): the state it sets
LoadedFile(storage) ==
    IF storage.file # NullStored
         /\ Truthy(storage.file.base64) /\ Truthy(storage.file.mimeType)
    THEN [base64 |-> storage.file.base64, mimeType |-> storage.file.mimeType,
          previewUrl |-> <<"data:">> \o storage.file.mimeType
                           \o <<";base64", ",">> \o storage.file.base64]
    ELSE NullFile

LoadedImage(storage) == IF Truthy(storage.gen) THEN storage.gen ELSE Null

\* ------------------------------------------------------- App: the views
\* CurrentView (lines 254-262) with renderResultState's own guard
CurrentView ==
    IF Truthy(generatedImage)
    THEN IF uploadedFile # NullFile THEN "result" ELSE "blank"
    ELSE IF uploadedFile # NullFile THEN "processing" ELSE "initial"

FileInputShown      == mounted /\ CurrentView = "initial"
OptionButtonsShown  == mounted /\ CurrentView = "processing"
\* lines 203-219: the spinner replaces both buttons while isLoading
GenerateButtonShown == mounted /\ CurrentView = "processing" /\ ~isLoading
ResetButtonShown    ==
    mounted /\ \/ CurrentView = "processing" /\ ~isLoading
               \/ CurrentView = "result"

\* ----------------------------------------------------- App: the handlers
\* The page loads (first visit or reload): callbacks of the page before die
\* with it, state starts at the useState defaults, the load effect reads
\* storage, the save effect runs with the defaults (removing both keys)
\* and again after the render that shows the loaded state.
Mount ==
    \E fail \in SaveFailures :
        LET file == LoadedFile(localStorage)
            gen  == LoadedImage(localStorage)
            wiped == SaveEffect(localStorage, NullFile, Null, "none")
        IN  /\ mounted' = TRUE
            /\ uploadedFile' = file
            /\ generatedImage' = gen
            /\ isLoading' = FALSE
            /\ error' = Null
            /\ lineThickness' = "medium"
            /\ imageQuality' = "medium"
            /\ localStorage' =
                 IF file # NullFile \/ gen # Null
                 THEN SaveEffect(wiped, file, gen, fail)
                 ELSE wiped
            /\ readers' = {}
            /\ pending' = <<>>
            /\ UNCHANGED svcVars

\* handleFileChange (lines 80-104), up to reader.readAsDataURL(file)
HandleFileChange ==
    \E file \in Files :
        /\ FileInputShown
        /\ IF ~StartsWith(file.type, <<"image/">>)
           THEN /\ error' = InvalidFileMessage
                /\ UNCHANGED readers
           ELSE /\ file \notin readers
                /\ Cardinality(readers) < MaxReaders
                /\ error' = Null
                /\ readers' = readers \cup {file}
        /\ UNCHANGED <<mounted, uploadedFile, generatedImage, isLoading,
                       lineThickness, imageQuality, localStorage, pending,
                       svcVars>>

\* reader.onloadend after a successful read (lines 89-98), then the save
\* effect
ReaderLoadEnd ==
    \E file \in readers, fail \in SaveFailures :
        /\ file.content # Null
        /\ LET newFile == [base64     |-> SplitComma1(DataURL(file)),
                           mimeType   |-> file.type,
                           previewUrl |-> <<"blob:", file.name>>]
           IN  /\ uploadedFile' = newFile
               /\ generatedImage' = Null
               /\ localStorage' = Saved(newFile, Null, TRUE, fail)
        /\ readers' = readers \ {file}
        /\ UNCHANGED <<mounted, isLoading, error, lineThickness, imageQuality,
                       pending, svcVars>>

\* reader.onerror (lines 99-101); onloadend then throws on the null result
\* before it sets anything
ReaderError ==
    \E file \in readers :
        /\ file.content = Null
        /\ error' = ReadFailedMessage
        /\ readers' = readers \ {file}
        /\ UNCHANGED <<mounted, uploadedFile, generatedImage, isLoading,
                       lineThickness, imageQuality, localStorage, pending,
                       svcVars>>

SetLineThickness ==
    \E t \in LineThicknesses :
        /\ OptionButtonsShown
        /\ lineThickness' = t
        /\ UNCHANGED <<mounted, uploadedFile, generatedImage, isLoading, error,
                       imageQuality, localStorage, readers, pending, svcVars>>

SetImageQuality ==
    \E q \in ImageQualities :
        /\ OptionButtonsShown
        /\ imageQuality' = q
        /\ UNCHANGED <<mounted, uploadedFile, generatedImage, isLoading, error,
                       lineThickness, localStorage, readers, pending, svcVars>>

\* handleGenerateClick up to the await (lines 106-116)
GenerateClickBody(fail) ==
    /\ Len(pending) < MaxPending
    /\ IF uploadedFile = NullFile
       THEN /\ error' = UploadFirstMessage
            /\ UNCHANGED <<isLoading, generatedImage, pending, localStorage>>
       ELSE /\ isLoading' = TRUE
            /\ error' = Null
            /\ generatedImage' = Null
            /\ pending' = Append(pending,
                   [base64Data    |-> uploadedFile.base64,
                    mimeType      |-> uploadedFile.mimeType,
                    lineThickness |-> lineThickness,
                    imageQuality  |-> imageQuality])
            /\ localStorage' = Saved(uploadedFile, Null, FALSE, fail)
    /\ UNCHANGED <<mounted, uploadedFile, lineThickness, imageQuality, readers,
                   svcVars>>

HandleGenerateClickNoSpinner ==
    \E fail \in SaveFailures :
        mounted /\ CurrentView = "processing" /\ GenerateClickBody(fail)

HandleGenerateClick ==
    \E fail \in SaveFailures :
        GenerateButtonShown /\ GenerateClickBody(fail)

\* the calls the service can end with, as far as the component can tell
\* them apart
UISettlements(b) ==
    {Resolved(r) : r \in
        [parts : {<<>>} \cup {<<[inlineData |-> x]>> : x \in ServiceImages(b)},
         finishReason : {"STOP", "SAFETY"},
         text : {Null, <<"Sorry,", " ", "no.">>}]}
    \cup {Rejected(e) : e \in Errors}

RemoveAt(q, i) == SubSeq(q, 1, i - 1) \o SubSeq(q, i + 1, Len(q))

\* handleGenerateClick after the await (lines 116-123), then the save effect
GenerateSettles ==
    \E i \in 1..Len(pending), fail \in SaveFailures :
        \E s \in UISettlements(pending[i].base64Data) :
            LET o == Outcome(s)
                newGen == IF o.ok
                          THEN <<"data:image/png;base64,">> \o o.value
                          ELSE generatedImage
            IN  /\ generatedImage' = newGen
                /\ error' = IF o.ok THEN error ELSE o.message
                /\ isLoading' = FALSE
                /\ pending' = RemoveAt(pending, i)
                /\ localStorage' = Saved(uploadedFile, newGen, FALSE, fail)
                /\ UNCHANGED <<mounted, uploadedFile, lineThickness,
                               imageQuality, readers, svcVars>>

\* handleReset (lines 126-135), then the save effect
HandleReset ==
    /\ ResetButtonShown
    /\ uploadedFile' = NullFile
    /\ generatedImage' = Null
    /\ error' = Null
    /\ isLoading' = FALSE
    /\ localStorage' = Saved(NullFile, Null, FALSE, "none")
    /\ UNCHANGED <<mounted, lineThickness, imageQuality, readers, pending,
                   svcVars>>

\* the App component before its first mount (useState defaults, empty
\* storage); the stand-alone invocation of the service is not stepped here
Init ==
    /\ args = [base64Data |-> <<>>, mimeType |-> <<"image/", "png">>,
               lineThickness |-> "medium", imageQuality |-> "medium"]
    /\ pc = "start"
    /\ requests = <<>>
    /\ settled = NotSettled
    /\ outcomes = <<>>
    /\ mounted = FALSE
    /\ uploadedFile = NullFile
    /\ generatedImage = Null
    /\ isLoading = FALSE
    /\ error = Null
    /\ lineThickness = "medium"
    /\ imageQuality = "medium"
    /\ localStorage = [file |-> NullStored, gen |-> Null]
    /\ readers = {}
    /\ pending = <<>>

Next ==
    \/ Mount
    \/ HandleFileChange
    \/ ReaderLoadEnd
    \/ ReaderError
    \/ SetLineThickness
    \/ SetImageQuality
    \/ HandleGenerateClick
    \/ GenerateSettles
    \/ HandleReset

Spec == Init /\ [][Next]_vars

\* ----------------------------------------------------------- UI claims
\* C7: at most one generateColoringPage call is outstanding; while one is,
\* isLoading is true and the generate trigger is not available.
C7_SingleCallInFlight ==
    /\ Len(pending) <= 1
    /\ Len(pending) = 1 => (isLoading /\ ~GenerateButtonShown)

\* C7 witness: a call is outstanding while a file read is still in flight
\* and the options have been changed.
C7_Witness ==
    /\ Len(pending) = 1 /\ isLoading
    /\ readers # {}
    /\ lineThickness # pending[1].lineThickness

GeneratedFrom(img, b) ==
    img \in {<<"data:image/png;base64,">> \o x : x \in ServiceImages(b)}

\* C9 (as claimed): a shown coloring page was generated from the image
\* held in uploadedFile.
C9_ResultMatchesUpload ==
    (Truthy(generatedImage) /\ uploadedFile # NullFile)
        => GeneratedFrom(generatedImage, uploadedFile.base64)

\* C10 (as claimed): generatedImage non-null implies uploadedFile non-null.
C10_ResultHasUpload ==
    Truthy(generatedImage) => uploadedFile # NullFile
====
